---- MODULE Spec2Model ----
(***************************************************************************)
(* Model of the JNI bridge SlamWrapper.cpp: five entry points that share   *)
(* the file-scope globals g_pSLAM, g_isInitialized, g_trackingState and    *)
(* g_currentPose under the single mutex g_slamMutex.                       *)
(*                                                                         *)
(* Every entry point is modelled statement by statement: a thread enters   *)
(* the function (Call), constructs its std::lock_guard (Lock), executes    *)
(* the body one statement per step, and destroys the guard at its return   *)
(* (Return).  Positions are in units of the increment 0.001f, so pose      *)
(* components are integers.                                                *)
(***************************************************************************)
EXTENDS Integers, Sequences, FiniteSets, TLC

\* ---------------------------------------------------------------- bounds
NumThreads == 2     \* threads of the host application that call the bridge
MaxPose == 2        \* process_frame is not entered once x reached this
MaxTs == 1          \* timestamps range over 0..MaxTs

Threads == 1..NumThreads
Timestamps == 0..MaxTs

\* --------------------------------------------------------- program values
NO_IMAGES_YET == 0
NOT_INITIALIZED == 1
OK == 2
LOST == 3

PoseLen == 7
PoseStep == 1       \* one unit stands for the increment 0.001f

nullptr == 0

\* the initializer of g_currentPose: position 0, quaternion (0,0,0,1)
IdentityPose == <<0, 0, 0, 0, 0, 0, 1>>

\* the strings handed to processFrameNative as imageData
ImageStrs == {"data:image/png;base64", "frame_ok.png", "frame_missing.png"}

\* the strings handed to initializeSlamNative as vocabPath and settingsPath
VocabPaths == {"ORBvoc.txt", "missing_voc.txt"}
SettingsPaths == {"camera.yaml", "malformed.yaml"}

Ops == {"initialize", "process_frame", "reset", "shutdown", "tracking_state"}

VARIABLES
    g_pSLAM,          \* static void* g_pSLAM
    g_slamMutex,      \* 0 when free, else the thread that owns it
    g_isInitialized,  \* static bool g_isInitialized
    g_trackingState,  \* static int g_trackingState
    g_currentPose,    \* static float g_currentPose[7], 1-based here
    pc,               \* per thread: position inside the entry point
    op,               \* per thread: the entry point being executed
    vocabPathStr,     \* per thread: local const char* vocabPathStr
    settingsPathStr,  \* per thread: local const char* settingsPathStr
    imageStr,         \* per thread: local std::string imageStr
    timestamp,        \* per thread: parameter jdouble timestamp
    frame,            \* per thread: local cv::Mat frame ("none","empty","image")
    i,                \* per thread: loop variable of resetNative
    result,           \* per thread: the value about to be returned
    pre,              \* per thread: the globals as seen when the lock was taken
    lifecycle,        \* history: "fresh", "active" (after initialize), "terminated"
    prevOp,           \* history: the entry point that returned last
    lastAcceptedTs,   \* history: largest timestamp of a frame accepted in this session
    fedImage,         \* history: image of the call that returned last, when that was
                      \* a process_frame entered in state NOT_INITIALIZED; else ""
    okFrames          \* history: frames accepted since the last reset or process start

shared == <<g_pSLAM, g_isInitialized, g_trackingState, g_currentPose>>
paths == <<vocabPathStr, settingsPathStr>>
locals == <<vocabPathStr, settingsPathStr, imageStr, timestamp, frame, i, result>>
history == <<lifecycle, prevOp, lastAcceptedTs, fedImage, okFrames>>
vars == <<g_pSLAM, g_slamMutex, g_isInitialized, g_trackingState, g_currentPose,
          pc, op, vocabPathStr, settingsPathStr, imageStr, timestamp, frame, i,
          result, pre,
          lifecycle, prevOp, lastAcceptedTs, fedImage, okFrames>>

\* ------------------------------------------------------------ helpers
\* the four globals as one record
Globals ==
    [slam |-> g_pSLAM, init |-> g_isInitialized,
     state |-> g_trackingState, pose |-> g_currentPose]

NoGlobals == [slam |-> nullptr, init |-> FALSE, state |-> 0, pose |-> <<>>]

\* return values: void, a null jfloatArray, a jfloatArray copy, a jint
NoResult == [kind |-> "none", val |-> <<>>]
VoidResult == [kind |-> "void", val |-> <<>>]
NullResult == [kind |-> "null", val |-> <<>>]
PoseResult(p) == [kind |-> "pose", val |-> p]
IntResult(n) == [kind |-> "int", val |-> <<n>>]

Max(a, b) == IF a >= b THEN a ELSE b

\* imageStr.find("data:image") != std::string::npos
HasDataImage(s) == s = "data:image/png;base64"

\* base64ToMat never fills its byte vector, so it decodes an empty buffer:
\* imdecode is taken at its documented behaviour, an empty Mat for a buffer
\* that holds no image
base64ToMat(s) == "empty"

\* loadImage: imread yields an image only for a readable image file
loadImage(s) == IF s = "frame_ok.png" THEN "image" ELSE "empty"

\* first statement of each entry point after the lock_guard
EntryPc(o) ==
    CASE o = "initialize" -> "in_args"
      [] o = "process_frame" -> "pf_chk"
      [] o = "reset" -> "rs_slam"
      [] o = "shutdown" -> "sd_slam"
      [] o = "tracking_state" -> "ts_read"

\* ------------------------------------------------------------ initial state
Init ==
    /\ g_pSLAM = nullptr
    /\ g_slamMutex = 0
    /\ g_isInitialized = FALSE
    /\ g_trackingState = 0
    /\ g_currentPose = IdentityPose
    /\ pc = [t \in Threads |-> "idle"]
    /\ op = [t \in Threads |-> "none"]
    /\ vocabPathStr = [t \in Threads |-> ""]
    /\ settingsPathStr = [t \in Threads |-> ""]
    /\ imageStr = [t \in Threads |-> ""]
    /\ timestamp = [t \in Threads |-> 0]
    /\ frame = [t \in Threads |-> "none"]
    /\ i = [t \in Threads |-> 0]
    /\ result = [t \in Threads |-> NoResult]
    /\ pre = [t \in Threads |-> NoGlobals]
    /\ lifecycle = "fresh"
    /\ prevOp = "none"
    /\ lastAcceptedTs = -1
    /\ fedImage = ""
    /\ okFrames = 0

\* ------------------------------------------------------------ call and lock
\* a thread calls into the bridge and arrives at the lock_guard of the entry
\* point; which of the five entry points it is in is recorded by Lock
Call(t) ==
    /\ pc[t] = "idle"
    /\ pc' = [pc EXCEPT ![t] = "lock"]
    /\ UNCHANGED <<shared, g_slamMutex, op, locals, pre, history>>

\* std::mutex::lock without waiting for the owner (mutation of TryLock)
TryLock_NoWait(t) ==
    g_slamMutex' = t

\* std::mutex::lock: proceeds only when nobody owns the mutex
TryLock(t) ==
    /\ g_slamMutex = 0
    /\ g_slamMutex' = t

\* std::lock_guard<std::mutex> lock(g_slamMutex) of entry point o
Lock(t) ==
    /\ pc[t] = "lock"
    /\ TryLock(t)
    /\ \E o \in Ops :
          /\ o = "process_frame" => g_currentPose[1] < MaxPose
          /\ op' = [op EXCEPT ![t] = o]
          /\ pc' = [pc EXCEPT ![t] = EntryPc(o)]
    /\ pre' = [pre EXCEPT ![t] = Globals]
    /\ UNCHANGED <<shared, locals, history>>

\* the mutex of a manual lock()/unlock() pair that the early "return nullptr"
\* paths leave locked (mutation of Unlock)
Unlock_NotOnError(t) ==
    g_slamMutex' = IF result[t].kind = "null" THEN g_slamMutex ELSE 0

\* ~lock_guard: std::mutex::unlock on every path that leaves the function
Unlock(t) ==
    g_slamMutex' = 0

\* the return statement: ~lock_guard unlocks, the locals go out of scope
Return(t) ==
    /\ pc[t] = "ret"
    /\ Unlock(t)
    /\ pc' = [pc EXCEPT ![t] = "idle"]
    /\ op' = [op EXCEPT ![t] = "none"]
    /\ vocabPathStr' = [vocabPathStr EXCEPT ![t] = ""]
    /\ settingsPathStr' = [settingsPathStr EXCEPT ![t] = ""]
    /\ imageStr' = [imageStr EXCEPT ![t] = ""]
    /\ timestamp' = [timestamp EXCEPT ![t] = 0]
    /\ frame' = [frame EXCEPT ![t] = "none"]
    /\ i' = [i EXCEPT ![t] = 0]
    /\ result' = [result EXCEPT ![t] = NoResult]
    /\ pre' = [pre EXCEPT ![t] = NoGlobals]
    /\ lifecycle' = IF op[t] = "initialize" THEN "active"
                    ELSE IF op[t] = "shutdown" THEN "terminated"
                    ELSE lifecycle
    /\ prevOp' = op[t]
    /\ lastAcceptedTs' =
          IF op[t] = "process_frame" /\ result[t].kind = "pose"
          THEN Max(lastAcceptedTs, timestamp[t])
          ELSE IF op[t] \in {"initialize", "shutdown"} THEN -1
          ELSE lastAcceptedTs
    /\ fedImage' =
          IF op[t] = "process_frame" /\ pre[t].state = NOT_INITIALIZED
          THEN imageStr[t]
          ELSE ""
    /\ okFrames' =
          IF op[t] = "process_frame" /\ result[t].kind = "pose" THEN okFrames + 1
          ELSE IF op[t] = "reset" THEN 0
          ELSE okFrames
    /\ UNCHANGED shared

\* ------------------------------------------------------------ initializeSlamNative
\* vocabPathStr and settingsPathStr are read from the arguments and logged;
\* neither file is opened
InArgs(t) ==
    /\ pc[t] = "in_args"
    /\ \E v \in VocabPaths, y \in SettingsPaths :
          /\ vocabPathStr' = [vocabPathStr EXCEPT ![t] = v]
          /\ settingsPathStr' = [settingsPathStr EXCEPT ![t] = y]
    /\ pc' = [pc EXCEPT ![t] = "in_flag"]
    /\ UNCHANGED <<shared, g_slamMutex, op, imageStr, timestamp, frame, i,
                   result, pre, history>>

\* g_isInitialized = true
InFlag(t) ==
    /\ pc[t] = "in_flag"
    /\ g_isInitialized' = TRUE
    /\ pc' = [pc EXCEPT ![t] = "in_state"]
    /\ UNCHANGED <<g_pSLAM, g_trackingState, g_currentPose, g_slamMutex,
                   op, locals, pre, history>>

\* initialize that leaves the tracking state alone (mutation of InState)
InState_NoState(t) ==
    /\ pc[t] = "in_state"
    /\ result' = [result EXCEPT ![t] = VoidResult]
    /\ pc' = [pc EXCEPT ![t] = "ret"]
    /\ UNCHANGED <<shared, g_slamMutex, op, paths, imageStr, timestamp, frame, i,
                   pre, history>>

\* g_trackingState = 1; nothing in the try block throws, so the catch is dead
InState(t) ==
    /\ pc[t] = "in_state"
    /\ g_trackingState' = NOT_INITIALIZED
    /\ result' = [result EXCEPT ![t] = VoidResult]
    /\ pc' = [pc EXCEPT ![t] = "ret"]
    /\ UNCHANGED <<g_pSLAM, g_isInitialized, g_currentPose, g_slamMutex,
                   op, paths, imageStr, timestamp, frame, i, pre, history>>

\* ------------------------------------------------------------ processFrameNative
\* process_frame without the initialized check (mutation of PfChk)
PfChk_NoCheck(t) ==
    /\ pc[t] = "pf_chk"
    /\ pc' = [pc EXCEPT ![t] = "pf_load"]
    /\ UNCHANGED <<shared, g_slamMutex, op, locals, pre, history>>

\* if (!g_isInitialized) return nullptr
PfChk(t) ==
    /\ pc[t] = "pf_chk"
    /\ IF ~g_isInitialized
       THEN /\ result' = [result EXCEPT ![t] = NullResult]
            /\ pc' = [pc EXCEPT ![t] = "ret"]
       ELSE /\ result' = result
            /\ pc' = [pc EXCEPT ![t] = "pf_load"]
    /\ UNCHANGED <<shared, g_slamMutex, op, paths, imageStr, timestamp, frame, i,
                   pre, history>>

\* imageStr is read from the argument; the frame is decoded or loaded
PfLoad(t) ==
    /\ pc[t] = "pf_load"
    /\ \E s \in ImageStrs, ts \in Timestamps :
          /\ imageStr' = [imageStr EXCEPT ![t] = s]
          /\ timestamp' = [timestamp EXCEPT ![t] = ts]
          /\ frame' = [frame EXCEPT ![t] =
                          IF HasDataImage(s) THEN base64ToMat(s) ELSE loadImage(s)]
    /\ pc' = [pc EXCEPT ![t] = "pf_empty"]
    /\ UNCHANGED <<shared, g_slamMutex, op, paths, i, result, pre, history>>

\* g_currentPose[k] += 0.001f (k is the 1-based index)
AddStep(pose, k) == [pose EXCEPT ![k] = @ + PoseStep]

\* the frame check placed after the first pose update (mutation of PfEmpty)
PfEmpty_Late(t) ==
    /\ pc[t] = "pf_empty"
    /\ g_currentPose' = AddStep(g_currentPose, 1)
    /\ IF frame[t] = "empty"
       THEN /\ result' = [result EXCEPT ![t] = NullResult]
            /\ pc' = [pc EXCEPT ![t] = "ret"]
       ELSE /\ result' = result
            /\ pc' = [pc EXCEPT ![t] = "pf_y"]
    /\ UNCHANGED <<g_pSLAM, g_isInitialized, g_trackingState, g_slamMutex,
                   op, paths, imageStr, timestamp, frame, i, pre, history>>

\* if (frame.empty()) return nullptr
PfEmpty(t) ==
    /\ pc[t] = "pf_empty"
    /\ IF frame[t] = "empty"
       THEN /\ result' = [result EXCEPT ![t] = NullResult]
            /\ pc' = [pc EXCEPT ![t] = "ret"]
       ELSE /\ result' = result
            /\ pc' = [pc EXCEPT ![t] = "pf_x"]
    /\ UNCHANGED <<shared, g_slamMutex, op, paths, imageStr, timestamp, frame, i,
                   pre, history>>

\* g_currentPose[0] += 0.001f
PfX(t) ==
    /\ pc[t] = "pf_x"
    /\ g_currentPose' = AddStep(g_currentPose, 1)
    /\ pc' = [pc EXCEPT ![t] = "pf_y"]
    /\ UNCHANGED <<g_pSLAM, g_isInitialized, g_trackingState, g_slamMutex,
                   op, locals, pre, history>>

\* a copied line that updates x again instead of y (mutation of PfY)
PfY_X(t) ==
    /\ pc[t] = "pf_y"
    /\ g_currentPose' = AddStep(g_currentPose, 1)
    /\ pc' = [pc EXCEPT ![t] = "pf_z"]
    /\ UNCHANGED <<g_pSLAM, g_isInitialized, g_trackingState, g_slamMutex,
                   op, locals, pre, history>>

\* g_currentPose[1] += 0.001f
PfY(t) ==
    /\ pc[t] = "pf_y"
    /\ g_currentPose' = AddStep(g_currentPose, 2)
    /\ pc' = [pc EXCEPT ![t] = "pf_z"]
    /\ UNCHANGED <<g_pSLAM, g_isInitialized, g_trackingState, g_slamMutex,
                   op, locals, pre, history>>

\* an off-by-one index that writes qx instead of z (mutation of PfZ)
PfZ_Qx(t) ==
    /\ pc[t] = "pf_z"
    /\ g_currentPose' = AddStep(g_currentPose, 4)
    /\ pc' = [pc EXCEPT ![t] = "pf_state"]
    /\ UNCHANGED <<g_pSLAM, g_isInitialized, g_trackingState, g_slamMutex,
                   op, locals, pre, history>>

\* g_currentPose[2] += 0.001f
PfZ(t) ==
    /\ pc[t] = "pf_z"
    /\ g_currentPose' = AddStep(g_currentPose, 3)
    /\ pc' = [pc EXCEPT ![t] = "pf_state"]
    /\ UNCHANGED <<g_pSLAM, g_isInitialized, g_trackingState, g_slamMutex,
                   op, locals, pre, history>>

\* g_trackingState = 2
PfState(t) ==
    /\ pc[t] = "pf_state"
    /\ g_trackingState' = OK
    /\ pc' = [pc EXCEPT ![t] = "pf_result"]
    /\ UNCHANGED <<g_pSLAM, g_isInitialized, g_currentPose, g_slamMutex,
                   op, locals, pre, history>>

\* NewFloatArray(7); SetFloatArrayRegion(result, 0, 7, g_currentPose); return result
PfResult(t) ==
    /\ pc[t] = "pf_result"
    /\ result' = [result EXCEPT ![t] = PoseResult(g_currentPose)]
    /\ pc' = [pc EXCEPT ![t] = "ret"]
    /\ UNCHANGED <<shared, g_slamMutex, op, paths, imageStr, timestamp, frame, i,
                   pre, history>>

\* ------------------------------------------------------------ resetNative
\* if (g_pSLAM) { } : the body is commented out; then int i = 0
RsSlam(t) ==
    /\ pc[t] = "rs_slam"
    /\ i' = [i EXCEPT ![t] = 0]
    /\ pc' = [pc EXCEPT ![t] = "rs_loop"]
    /\ UNCHANGED <<shared, g_slamMutex, op, paths, imageStr, timestamp, frame, result,
                   pre, history>>

\* a loop body that skips the position entries (mutation of ClearEntry)
ClearEntry_QuatOnly(pose, k) ==
    IF k < 3 THEN pose ELSE [pose EXCEPT ![k + 1] = 0]

\* g_currentPose[k] = 0.0f (k is the 0-based index of the source)
ClearEntry(pose, k) == [pose EXCEPT ![k + 1] = 0]

\* for (int i = 0; i < 6; i++) g_currentPose[i] = 0.0f
RsLoop(t) ==
    /\ pc[t] = "rs_loop"
    /\ IF i[t] < 6
       THEN /\ g_currentPose' = ClearEntry(g_currentPose, i[t])
            /\ i' = [i EXCEPT ![t] = i[t] + 1]
            /\ pc' = pc
       ELSE /\ g_currentPose' = g_currentPose
            /\ i' = i
            /\ pc' = [pc EXCEPT ![t] = "rs_qw"]
    /\ UNCHANGED <<g_pSLAM, g_isInitialized, g_trackingState, g_slamMutex,
                   op, paths, imageStr, timestamp, frame, result, pre, history>>

\* g_currentPose[6] = 1.0f
RsQw(t) ==
    /\ pc[t] = "rs_qw"
    /\ g_currentPose' = [g_currentPose EXCEPT ![PoseLen] = 1]
    /\ pc' = [pc EXCEPT ![t] = "rs_state"]
    /\ UNCHANGED <<g_pSLAM, g_isInitialized, g_trackingState, g_slamMutex,
                   op, locals, pre, history>>

\* a reset that marks the state with -1 (mutation of RsState)
RsState_Negative(t) ==
    /\ pc[t] = "rs_state"
    /\ g_trackingState' = -1
    /\ result' = [result EXCEPT ![t] = VoidResult]
    /\ pc' = [pc EXCEPT ![t] = "ret"]
    /\ UNCHANGED <<g_pSLAM, g_isInitialized, g_currentPose, g_slamMutex,
                   op, paths, imageStr, timestamp, frame, i, pre, history>>

\* g_trackingState = 1
RsState(t) ==
    /\ pc[t] = "rs_state"
    /\ g_trackingState' = NOT_INITIALIZED
    /\ result' = [result EXCEPT ![t] = VoidResult]
    /\ pc' = [pc EXCEPT ![t] = "ret"]
    /\ UNCHANGED <<g_pSLAM, g_isInitialized, g_currentPose, g_slamMutex,
                   op, paths, imageStr, timestamp, frame, i, pre, history>>

\* ------------------------------------------------------------ shutdownNative
\* if (g_pSLAM) g_pSLAM = nullptr
SdSlam(t) ==
    /\ pc[t] = "sd_slam"
    /\ g_pSLAM' = IF g_pSLAM # nullptr THEN nullptr ELSE g_pSLAM
    /\ pc' = [pc EXCEPT ![t] = "sd_flag"]
    /\ UNCHANGED <<g_isInitialized, g_trackingState, g_currentPose, g_slamMutex,
                   op, locals, pre, history>>

\* g_isInitialized = false
SdFlag(t) ==
    /\ pc[t] = "sd_flag"
    /\ g_isInitialized' = FALSE
    /\ pc' = [pc EXCEPT ![t] = "sd_state"]
    /\ UNCHANGED <<g_pSLAM, g_trackingState, g_currentPose, g_slamMutex,
                   op, locals, pre, history>>

\* a shutdown whose final state depends on the state it found (mutation of SdState)
SdState_Count(t) ==
    /\ pc[t] = "sd_state"
    /\ g_trackingState' = IF g_trackingState = 0 THEN 3 ELSE 0
    /\ result' = [result EXCEPT ![t] = VoidResult]
    /\ pc' = [pc EXCEPT ![t] = "ret"]
    /\ UNCHANGED <<g_pSLAM, g_isInitialized, g_currentPose, g_slamMutex,
                   op, paths, imageStr, timestamp, frame, i, pre, history>>

\* g_trackingState = 0
SdState(t) ==
    /\ pc[t] = "sd_state"
    /\ g_trackingState' = 0
    /\ result' = [result EXCEPT ![t] = VoidResult]
    /\ pc' = [pc EXCEPT ![t] = "ret"]
    /\ UNCHANGED <<g_pSLAM, g_isInitialized, g_currentPose, g_slamMutex,
                   op, paths, imageStr, timestamp, frame, i, pre, history>>

\* ------------------------------------------------------------ getTrackingStateNative
\* a query that clears the state it reports (mutation of TsRead)
TsRead_Clear(t) ==
    /\ pc[t] = "ts_read"
    /\ result' = [result EXCEPT ![t] = IntResult(g_trackingState)]
    /\ g_trackingState' = NO_IMAGES_YET
    /\ pc' = [pc EXCEPT ![t] = "ret"]
    /\ UNCHANGED <<g_pSLAM, g_isInitialized, g_currentPose, g_slamMutex,
                   op, paths, imageStr, timestamp, frame, i, pre, history>>

\* return g_trackingState
TsRead(t) ==
    /\ pc[t] = "ts_read"
    /\ result' = [result EXCEPT ![t] = IntResult(g_trackingState)]
    /\ pc' = [pc EXCEPT ![t] = "ret"]
    /\ UNCHANGED <<shared, g_slamMutex, op, paths, imageStr, timestamp, frame, i,
                   pre, history>>

\* ------------------------------------------------------------ specification
Next ==
    \E t \in Threads :
        \/ Call(t)
        \/ Lock(t)
        \/ InArgs(t)
        \/ InFlag(t)
        \/ InState(t)
        \/ PfChk(t)
        \/ PfLoad(t)
        \/ PfEmpty(t)
        \/ PfX(t)
        \/ PfY(t)
        \/ PfZ(t)
        \/ PfState(t)
        \/ PfResult(t)
        \/ RsSlam(t)
        \/ RsLoop(t)
        \/ RsQw(t)
        \/ RsState(t)
        \/ SdSlam(t)
        \/ SdFlag(t)
        \/ SdState(t)
        \/ TsRead(t)
        \/ Return(t)

Spec == Init /\ [][Next]_vars

\* the statements of thread t after it has taken the lock, up to its return
Body(t) ==
    \/ InArgs(t) \/ InFlag(t) \/ InState(t)
    \/ PfChk(t) \/ PfLoad(t) \/ PfEmpty(t)
    \/ PfX(t) \/ PfY(t) \/ PfZ(t) \/ PfState(t) \/ PfResult(t)
    \/ RsSlam(t) \/ RsLoop(t) \/ RsQw(t) \/ RsState(t)
    \/ SdSlam(t) \/ SdFlag(t) \/ SdState(t)
    \/ TsRead(t)
    \/ Return(t)

\* fair scheduling: a thread that can run its next statement eventually runs
\* it, and a thread blocked at the mutex eventually gets it if the mutex is
\* free again and again; nothing obliges a thread to call
LiveSpec ==
    /\ Spec
    /\ \A t \in Threads : WF_vars(Body(t)) /\ SF_vars(Lock(t))

\* ------------------------------------------------------------ properties
\* a thread is between the construction and the destruction of its lock_guard
InCS(t) == pc[t] \notin {"idle", "lock"}

\* the call of thread t has computed its return value and is about to return
AtReturn(t, o) == pc[t] = "ret" /\ op[t] = o

\* a call that reports failure: no pose and no normal completion
Failed(t) == result[t].kind = "null"

\* squared norm of the quaternion part of a pose
QuatNormSq(p) == p[4] * p[4] + p[5] * p[5] + p[6] * p[6] + p[7] * p[7]

\* C1: at most one call is inside its critical section at a time and it owns
\* the mutex; while a process_frame is in flight nobody else changes the
\* initialized flag, the engine handle or (before its own updates) the rest of
\* the globals; tracking_state returns the state as it was when it took the
\* lock, with no mutation in between.
C1_MutualExclusion ==
    /\ Cardinality({t \in Threads : InCS(t)}) <= 1
    /\ \A t \in Threads : InCS(t) => g_slamMutex = t
    /\ \A t \in Threads :
          (InCS(t) /\ op[t] = "process_frame") =>
              /\ g_isInitialized = pre[t].init
              /\ g_pSLAM = pre[t].slam
              /\ pc[t] \in {"pf_chk", "pf_load", "pf_empty"} => Globals = pre[t]
    /\ \A t \in Threads :
          AtReturn(t, "tracking_state") =>
              /\ Globals = pre[t]
              /\ result[t] = IntResult(pre[t].state)

\* a process_frame is in the middle of its pose update while another caller
\* is blocked in its lock_guard
C1_Witness ==
    \E t, u \in Threads :
        /\ t # u
        /\ op[t] = "process_frame" /\ pc[t] = "pf_y"
        /\ pc[u] = "lock"

\* C2: whatever the session was before, when initialize returns the session
\* is marked initialized and the tracking state is NOT_INITIALIZED (1).
C2_AfterInitialize ==
    \A t \in Threads :
        AtReturn(t, "initialize") =>
            /\ g_isInitialized
            /\ g_trackingState = NOT_INITIALIZED

\* initialize returns on a session that had been shut down with frames processed
C2_Witness ==
    \E t \in Threads :
        /\ AtReturn(t, "initialize")
        /\ lifecycle = "terminated"
        /\ pre[t].state = NO_IMAGES_YET
        /\ pre[t].pose[1] > 0

\* C3: after shutdown and before the next initialize, process_frame and reset
\* fail and leave the initialized flag, the tracking state and the pose as
\* they were.
C3_AfterShutdownCallsFail ==
    \A t \in Threads :
        (lifecycle = "terminated"
            /\ (AtReturn(t, "process_frame") \/ AtReturn(t, "reset"))) =>
            /\ Failed(t)
            /\ Globals = pre[t]

\* C4: when reset returns, the tracking state is NOT_INITIALIZED and the pose
\* is the identity pose, whatever they were before.
C4_AfterReset ==
    \A t \in Threads :
        AtReturn(t, "reset") =>
            /\ g_trackingState = NOT_INITIALIZED
            /\ g_currentPose = IdentityPose

\* reset returns in state OK after MaxPose frames were processed
C4_Witness ==
    \E t \in Threads :
        /\ AtReturn(t, "reset")
        /\ pre[t].state = OK
        /\ pre[t].pose[1] = MaxPose
        /\ pre[t].pose[3] = MaxPose

\* C5: shutdown always completes normally, and a shutdown that directly
\* follows a shutdown leaves every global as the first one left it.
C5_ShutdownIdempotent ==
    \A t \in Threads :
        AtReturn(t, "shutdown") =>
            /\ result[t] = VoidResult
            /\ ~g_isInitialized
            /\ prevOp = "shutdown" => Globals = pre[t]

\* the second of two consecutive shutdowns returns, after frames were processed
C5_Witness ==
    \E t \in Threads :
        /\ AtReturn(t, "shutdown")
        /\ prevOp = "shutdown"
        /\ lifecycle = "terminated"
        /\ pre[t].pose[1] > 0

\* C6: a process_frame whose timestamp is smaller than that of an earlier
\* accepted frame of the session is rejected and changes neither the tracking
\* state nor the pose.
C6_OutOfOrderRejected ==
    \A t \in Threads :
        (AtReturn(t, "process_frame") /\ timestamp[t] < lastAcceptedTs) =>
            /\ Failed(t)
            /\ g_trackingState = pre[t].state
            /\ g_currentPose = pre[t].pose

\* C7: in state OK, process_frame on an empty or undecodable image reports a
\* failure and the tracking state becomes LOST (3).
C7_EmptyFrameLost ==
    \A t \in Threads :
        (AtReturn(t, "process_frame") /\ pre[t].init /\ pre[t].state = OK
            /\ frame[t] = "empty") =>
            /\ Failed(t)
            /\ g_trackingState = LOST

\* C8: a process_frame that fails leaves the pose as it was before the call.
C8_FailedFrameKeepsPose ==
    \A t \in Threads :
        (AtReturn(t, "process_frame") /\ Failed(t)) =>
            g_currentPose = pre[t].pose

\* an empty frame is rejected after an earlier frame had moved the pose
C8_Witness ==
    \E t \in Threads :
        /\ AtReturn(t, "process_frame")
        /\ Failed(t)
        /\ frame[t] = "empty"
        /\ pre[t].init
        /\ pre[t].pose[1] > 0

\* C9: process_frame on a session that was never initialized returns no pose,
\* changes neither the tracking state nor the pose, and the tracking state is
\* still NO_IMAGES_YET.
C9_NeverInitialized ==
    \A t \in Threads :
        (AtReturn(t, "process_frame") /\ lifecycle = "fresh") =>
            /\ Failed(t)
            /\ g_trackingState = pre[t].state
            /\ g_currentPose = pre[t].pose
            /\ g_trackingState = NO_IMAGES_YET

\* C10: the stored quaternion is (0,0,0,1) in every reachable state and every
\* pose that process_frame returns has a quaternion of norm one.
C10_UnitQuaternion ==
    /\ <<g_currentPose[4], g_currentPose[5], g_currentPose[6], g_currentPose[7]>>
          = <<0, 0, 0, 1>>
    /\ \A t \in Threads :
          result[t].kind = "pose" => QuatNormSq(result[t].val) = 1

\* a pose is returned in a session that was reset before
C10_Witness ==
    \E t \in Threads :
        /\ AtReturn(t, "process_frame")
        /\ result[t].kind = "pose"
        /\ prevOp = "reset"
        /\ result[t].val[1] > 0

\* C11: starting from NOT_INITIALIZED, feeding process_frame the same image
\* twice never moves the tracking state to OK.
C11_ZeroParallaxNotOK ==
    \A t \in Threads :
        (AtReturn(t, "process_frame") /\ prevOp = "process_frame"
            /\ imageStr[t] # "" /\ fedImage = imageStr[t]) =>
            g_trackingState # OK

\* the vocabulary and the settings file both exist and are well formed
ConfigUsable(t) ==
    vocabPathStr[t] = "ORBvoc.txt" /\ settingsPathStr[t] = "camera.yaml"

\* C12: initialize with an unreadable or malformed vocabulary or settings
\* file fails and leaves the session uninitialized.
C12_BadConfigFails ==
    \A t \in Threads :
        (AtReturn(t, "initialize") /\ ~ConfigUsable(t)) =>
            /\ Failed(t)
            /\ ~g_isInitialized

\* C13: when an initialize that directly follows a shutdown returns, the
\* pose is the identity pose, however many frames the previous session
\* processed.
C13_NewSessionIdentityPose ==
    \A t \in Threads :
        (AtReturn(t, "initialize") /\ prevOp = "shutdown") =>
            g_currentPose = IdentityPose

\* the four documented codes of the tracking state
TrackingStates == {NO_IMAGES_YET, NOT_INITIALIZED, OK, LOST}

\* C14: in every reachable state the tracking state, and every value that
\* tracking_state returns, is one of the codes 0, 1, 2, 3.
C14_StateInRange ==
    /\ g_trackingState \in TrackingStates
    /\ \A t \in Threads :
          AtReturn(t, "tracking_state") => result[t].val[1] \in TrackingStates

\* tracking_state returns OK while another caller is blocked at the lock
C14_Witness ==
    \E t, u \in Threads :
        /\ t # u
        /\ AtReturn(t, "tracking_state")
        /\ result[t] = IntResult(OK)
        /\ pc[u] = "lock"

\* the session handles of the host application (jobject instance)
Instances == {"moduleA", "moduleB"}

\* what a caller holding handle h observes: the entry points ignore their
\* instance argument, every handle sees the same globals
SeenThrough(h) == [state |-> g_trackingState, pose |-> g_currentPose]

\* C15: a call made through one handle never changes the tracking state or
\* the pose observed through a different handle.  The entry points do not
\* read the handle, so every call in flight is a call through any handle a.
C15_SessionsIndependent ==
    \A a, b \in Instances :
        a # b =>
            \A t \in Threads :
                InCS(t) =>
                    SeenThrough(b) = [state |-> pre[t].state, pose |-> pre[t].pose]

\* pose p moved by one step in x, y and z
Advance(p) == <<p[1] + PoseStep, p[2] + PoseStep, p[3] + PoseStep,
                p[4], p[5], p[6], p[7]>>

\* C16: a process_frame that succeeds leaves the state OK, has advanced x, y
\* and z by one step each with the quaternion untouched, and returns the
\* position (n, n, n) steps, n counting the accepted frames since the last
\* reset or process start, itself included; with no call in flight the
\* stored position is (n, n, n) as well.
C16_StepPerFrame ==
    /\ \A t \in Threads :
          (AtReturn(t, "process_frame") /\ result[t].kind = "pose") =>
              /\ g_trackingState = OK
              /\ g_currentPose = Advance(pre[t].pose)
              /\ result[t].val = g_currentPose
              /\ <<result[t].val[1], result[t].val[2], result[t].val[3]>>
                    = <<(okFrames + 1) * PoseStep, (okFrames + 1) * PoseStep,
                        (okFrames + 1) * PoseStep>>
    /\ g_slamMutex = 0 =>
          <<g_currentPose[1], g_currentPose[2], g_currentPose[3]>>
              = <<okFrames * PoseStep, okFrames * PoseStep, okFrames * PoseStep>>

\* the second accepted frame returns right after a frame that was rejected
\* for its missing image at the start of a second session
C16_Witness ==
    \E t \in Threads :
        /\ AtReturn(t, "process_frame")
        /\ result[t].kind = "pose"
        /\ okFrames = 1
        /\ prevOp = "process_frame"
        /\ fedImage = "frame_missing.png"
        /\ result[t].val[1] = 2 * PoseStep

\* C17: whenever no call is inside its critical section, tracking state OK
\* implies that the session is initialized; the only states with OK and the
\* flag cleared lie inside shutdown, between its two last stores, under the
\* lock.
C17_OkImpliesInitialized ==
    /\ g_slamMutex = 0 => (g_trackingState = OK => g_isInitialized)
    /\ \A t \in Threads :
          pc[t] = "ret" => (g_trackingState = OK => g_isInitialized)
    /\ (g_trackingState = OK /\ ~g_isInitialized) =>
          \E t \in Threads : pc[t] = "sd_state"

\* shutdown returns on a session that was in state OK
C17_Witness ==
    \E t \in Threads :
        /\ AtReturn(t, "shutdown")
        /\ pre[t].state = OK
        /\ pre[t].init

C19_QueryIsPure ==
    \A t \in Threads :
        (InCS(t) /\ op[t] = "tracking_state") =>
            /\ g_isInitialized = pre[t].init
            /\ g_trackingState = pre[t].state
            /\ g_currentPose = pre[t].pose
            /\ pc[t] = "ret" => result[t] = IntResult(g_trackingState)

\* tracking_state returns OK on a session that has processed frames
C19_Witness ==
    \E t \in Threads :
        /\ AtReturn(t, "tracking_state")
        /\ pre[t].init
        /\ pre[t].state = OK
        /\ pre[t].pose[1] > 0

====
